---- MODULE Spec2Model ----
(***************************************************************************)
(* A model of scripts/generate-song-catalog.py: the loader, the per-decade *)
(* stratified sampler with its quota reconciliation, the de-duplicating    *)
(* merge with the curated list, the padding step and the writer.           *)
(*                                                                         *)
(* Strings are tuples of one-character strings, so that lower(), strip(),  *)
(* split('-'), isdigit() and the substring test are computed, not assumed. *)
(* The decade quotas and the global catalog size are scaled down; the      *)
(* scaled values are the bounds named Quota1960, Quota1970, CatalogTarget. *)
(***************************************************************************)
EXTENDS Integers, Sequences, FiniteSets, TLC

\* ------------------------------------------------------------------ bounds
MaxRows == 2
MaxManual == 2
Quota1960 == 1
Quota1970 == 2
CatalogTarget == 3
MaxClock == 1
MaxGenres == 5
MaxGroup == 3
MaxTarget == 7

\* Python's None where an int is expected (parse_year returns int | None).
Nil == -1

\* ----------------------------------------------------------------- strings
Alphabet ==
  << " ", "\"", "-", "0", "1", "2", "3", "4", "5", "6", "7", "8", "9",
     "A", "B", "C", "D", "E", "F", "G", "H", "I", "J", "K", "L", "M",
     "N", "O", "P", "Q", "R", "S", "T", "U", "V", "W", "X", "Y", "Z",
     "a", "b", "c", "d", "e", "f", "g", "h", "i", "j", "k", "l", "m",
     "n", "o", "p", "q", "r", "s", "t", "u", "v", "w", "x", "y", "z",
     "e_acute", "ldquo" >>

Chars == {Alphabet[i] : i \in 1..Len(Alphabet)}

OrdTable == [c \in Chars |-> CHOOSE i \in 1..Len(Alphabet) : Alphabet[i] = c]

\* Code-point order of the characters used.
Ord(c) == OrdTable[c]

IsDigitChar(c) == c \in {"0", "1", "2", "3", "4", "5", "6", "7", "8", "9"}

IsUpperChar(c) == Ord(c) >= Ord("A") /\ Ord(c) <= Ord("Z")

LowerTable == [c \in Chars |-> IF IsUpperChar(c) THEN Alphabet[Ord(c) + 26] ELSE c]

LowerChar(c) == LowerTable[c]

\* str.lower()
Lower(s) == [i \in 1..Len(s) |-> LowerChar(s[i])]

RECURSIVE LStrip(_)
LStrip(s) == IF s # <<>> /\ Head(s) = " " THEN LStrip(Tail(s)) ELSE s

RECURSIVE RStrip(_)
RStrip(s) ==
  IF s # <<>> /\ s[Len(s)] = " " THEN RStrip(SubSeq(s, 1, Len(s) - 1)) ELSE s

\* str.strip()
Strip(s) == RStrip(LStrip(s))

\* s.split('-')[0]
RECURSIVE FirstDashField(_)
FirstDashField(s) ==
  IF s = <<>> \/ Head(s) = "-" THEN <<>>
  ELSE <<Head(s)>> \o FirstDashField(Tail(s))

\* str.isdigit()
IsDigit(s) == s # <<>> /\ \A i \in 1..Len(s) : IsDigitChar(s[i])

\* int(s) of a string of digits
RECURSIVE IntOf(_)
IntOf(s) ==
  IF s = <<>> THEN 0
  ELSE 10 * IntOf(SubSeq(s, 1, Len(s) - 1)) + (Ord(s[Len(s)]) - Ord("0"))

\* keyword in combined
Contains(s, k) ==
  \E i \in 0..(Len(s) - Len(k)) : SubSeq(s, i + 1, i + Len(k)) = k

\* Python's comparison of two str values, a < b
RECURSIVE StrLess(_, _)
StrLess(a, b) ==
  IF b = <<>> THEN FALSE
  ELSE IF a = <<>> THEN TRUE
  ELSE IF Head(a) # Head(b) THEN Ord(Head(a)) < Ord(Head(b))
  ELSE StrLess(Tail(a), Tail(b))

\* -------------------------------------------------------------- arithmetic
Min(a, b) == IF a <= b THEN a ELSE b

Max(a, b) == IF a >= b THEN a ELSE b

RECURSIVE SumSeq(_)
SumSeq(s) == IF s = <<>> THEN 0 ELSE Head(s) + SumSeq(Tail(s))

\* int(round(n / d)) for n >= 0, d > 0: Python rounds halves to even.
RoundHalfEven(n, d) ==
  LET q == n \div d
      r == n % d
  IN IF 2 * r < d THEN q
     ELSE IF 2 * r > d THEN q + 1
     ELSE IF q % 2 = 0 THEN q ELSE q + 1

\* ------------------------------------------------- stratified_sample: plan
\* The genre groups of a bucket are a sequence of group sizes, in the order in
\* which the genres are first seen in the bucket (dict insertion order).

\* The indices 1..n in the order sorted() gives them: before is the strict
\* order of the keys, as a set of pairs, and elements with equal keys keep
\* their input order.
OrderedBy(n, before) ==
  LET Prec(i, j) == <<i, j>> \in before \/ (<<j, i>> \notin before /\ i < j)
      Rank(i) == 1 + Cardinality({j \in 1..n : Prec(j, i)})
  IN [p \in 1..n |-> CHOOSE i \in 1..n : Rank(i) = p]

\* allocations[genre] = min(max(1, int(round(target * len(items) / total))), len(items))
InitialAllocations(sizes, tgt) ==
  LET total == SumSeq(sizes)
  IN [g \in 1..Len(sizes) |->
        Min(Max(1, RoundHalfEven(tgt * sizes[g], total)), sizes[g])]

\* sorted(groups.items(), key=(len - allocation, len), reverse=True)
ShortfallOrder(sizes, alloc) ==
  LET n == Len(sizes)
      before ==
        {p \in (1..n) \X (1..n) :
           \/ sizes[p[1]] - alloc[p[1]] > sizes[p[2]] - alloc[p[2]]
           \/ /\ sizes[p[1]] - alloc[p[1]] = sizes[p[2]] - alloc[p[2]]
              /\ sizes[p[1]] > sizes[p[2]]}
  IN OrderedBy(n, before)

\* ShortfallIter without the cap "min(diff, available)".
ShortfallIterUncapped(sizes, st, g) ==
  LET available == sizes[g] - st.allocations[g]
      add == st.diff
  IN IF available <= 0 THEN st
     ELSE [allocations |-> [st.allocations EXCEPT ![g] = @ + add],
           diff |-> st.diff - add]

\* One pass of the body of "for genre, items in ordered" once diff > 0.
ShortfallIter(sizes, st, g) ==
  LET available == sizes[g] - st.allocations[g]
      add == Min(st.diff, available)
  IN IF available <= 0 THEN st
     ELSE [allocations |-> [st.allocations EXCEPT ![g] = @ + add],
           diff |-> st.diff - add]

RECURSIVE ShortfallLoop(_, _, _, _)
ShortfallLoop(sizes, st, ord, p) ==
  IF p > Len(ord) \/ st.diff <= 0 THEN st
  ELSE ShortfallLoop(sizes, ShortfallIter(sizes, st, ord[p]), ord, p + 1)

\* sorted(allocations.items(), key=allocation, reverse=True)
OverflowOrder(alloc) ==
  LET n == Len(alloc)
      before == {p \in (1..n) \X (1..n) : alloc[p[1]] > alloc[p[2]]}
  IN OrderedBy(n, before)

\* OverflowWhile with "> 0" for "> 1": a genre can lose its last unit.
RECURSIVE OverflowWhileToZero(_, _)
OverflowWhileToZero(st, g) ==
  IF st.allocations[g] > 0 /\ st.diff > 0
  THEN OverflowWhileToZero([allocations |-> [st.allocations EXCEPT ![g] = @ - 1],
                            diff |-> st.diff - 1], g)
  ELSE st

\* while allocations[genre] > 1 and diff > 0: take one unit back
RECURSIVE OverflowWhile(_, _)
OverflowWhile(st, g) ==
  IF st.allocations[g] > 1 /\ st.diff > 0
  THEN OverflowWhile([allocations |-> [st.allocations EXCEPT ![g] = @ - 1],
                      diff |-> st.diff - 1], g)
  ELSE st

RECURSIVE OverflowLoop(_, _, _)
OverflowLoop(st, ord, p) ==
  IF p > Len(ord) \/ st.diff = 0 THEN st
  ELSE OverflowLoop(OverflowWhile(st, ord[p]), ord, p + 1)

\* The allocations stratified_sample draws by, for a bucket larger than target.
Allocations(sizes, tgt) ==
  LET init == InitialAllocations(sizes, tgt)
      current == SumSeq(init)
  IN IF current < tgt
     THEN ShortfallLoop(sizes, [allocations |-> init, diff |-> tgt - current],
                        ShortfallOrder(sizes, init), 1).allocations
     ELSE IF current > tgt
     THEN OverflowLoop([allocations |-> init, diff |-> current - tgt],
                       OverflowOrder(init), 1).allocations
     ELSE init

\* --------------------------------------------------------------- constants
\* DECADE_TARGETS in dict order, cut down to its first two decades and to
\* small quotas.
DECADE_TARGETS ==
  << [decade |-> 1960, target |-> Quota1960],
     [decade |-> 1970, target |-> Quota1970] >>

DecadeKeys == {DECADE_TARGETS[i].decade : i \in 1..Len(DECADE_TARGETS)}

FILM_KEYWORDS ==
  << <<"m","o","t","i","o","n"," ","p","i","c","t","u","r","e">>,
     <<"s","o","u","n","d","t","r","a","c","k">>,
     <<"o","s","t">>,
     <<"o","r","i","g","i","n","a","l"," ","s","c","o","r","e">>,
     <<"o","r","i","g","i","n","a","l"," ","f","i","l","m">>,
     <<"f","r","o","m"," ","t","h","e"," ","f","i","l","m">>,
     <<"f","r","o","m"," ","ldquo">>,
     <<"f","r","o","m"," ","\"">>,
     <<"a","n","i","m","e">>,
     <<"a","n","i","m","e_acute">>,
     <<"o","p","e","n","i","n","g"," ","t","h","e","m","e">>,
     <<"e","n","d","i","n","g"," ","t","h","e","m","e">>,
     <<"n","e","t","f","l","i","x"," ","f","i","l","m">>,
     <<"p","i","x","a","r">>,
     <<"m","a","r","v","e","l">>,
     <<"o","s","t">>,
     <<"s","c","o","r","e"," ","v","e","r","s","i","o","n">> >>

\* ------------------------------------------------------------------ inputs
RawRow(id, name, artist, album, date, genre) ==
  [track_id |-> id, track_name |-> name, track_artist |-> artist,
   track_album_name |-> album, track_album_release_date |-> date,
   playlist_genre |-> genre]

\* The rows a raw CSV file is made of.
RawRowPool ==
  { RawRow("a", <<"H","e","y">>, <<"A","i","r">>, <<"L","p">>,
           <<"1","9","6","5","-","0","6","-","0","1">>, "pop"),
    RawRow("b", <<" ","h","e","y">>, <<"A","I","R"," ">>, <<"L","p">>,
           <<"1","9","7","2">>, "rock"),
    RawRow("c", <<"G","o">>, <<"A","i","r">>, <<"L","p">>,
           <<" ","1","9","6","8"," ">>, "pop"),
    RawRow("a", <<"Y","o">>, <<"J","u","l">>, <<"L","p">>,
           <<"1","9","6","9","-","0","1","-","0","1">>, "rock"),
    RawRow("e", <<"Y","o">>, <<"A","i","r">>, <<"O","S","T">>,
           <<"1","9","7","2">>, "pop"),
    RawRow("f", <<"G","o">>, <<"A","i","r">>, <<"L","p">>,
           <<"1","9","5","7","-","0","3","-","0","1">>, "pop"),
    RawRow("g", <<"G","o">>, <<"A","i","r">>, <<"L","p">>,
           <<"2","0","3","1">>, "pop"),
    RawRow("h", <<"G","o">>, <<"A","i","r">>, <<"L","p">>,
           <<"1","9","x","5">>, "pop") }

ManualRow(year, artist, title, album, genre) ==
  [year |-> year, artist |-> artist, title |-> title, album |-> album,
   primary_genre |-> genre]

\* The rows a curated TSV file is made of.
ManualRowPool ==
  { ManualRow(<<"1","9","6","8">>, <<"a","i","r">>, <<"G","O">>,
              <<"L","p">>, "pop"),
    ManualRow(<<"1","9","5","9">>, <<"B","r","e","l">>, <<"L","a">>,
              <<"L","p">>, "chanson") }

SeqsUpTo(S, n) == UNION {[1..k -> S] : k \in 0..n}

\* ------------------------------------------------------------------ loader
parse_year(date_str) ==
  IF date_str = <<>> THEN Nil
  ELSE LET year_part == FirstDashField(Strip(date_str))
       IN IF IsDigit(year_part) THEN IntOf(year_part) ELSE Nil

is_soundtrack(row) ==
  LET combined_text == Lower(row.track_name \o <<" ">> \o row.track_album_name)
  IN \E k \in 1..Len(FILM_KEYWORDS) : Contains(combined_text, FILM_KEYWORDS[k])

DecadeOf(year) == (year \div 10) * 10

\* KeepRow without the is_soundtrack test.
KeepRowSoundtracks(row, seen_ids) ==
  LET year == parse_year(row.track_album_release_date)
  IN /\ row.track_id \notin seen_ids
     /\ year # Nil
     /\ year >= 1960
     /\ DecadeOf(year) >= 1960
     /\ DecadeOf(year) \in DecadeKeys

\* The row passes every "continue" of the loop body of load_spotify_records.
KeepRow(row, seen_ids) ==
  LET year == parse_year(row.track_album_release_date)
  IN /\ row.track_id \notin seen_ids
     /\ year # Nil
     /\ year >= 1960
     /\ DecadeOf(year) >= 1960
     /\ DecadeOf(year) \in DecadeKeys
     /\ ~is_soundtrack(row)

Tagged(row) ==
  LET year == parse_year(row.track_album_release_date)
  IN [track_id |-> row.track_id, track_name |-> row.track_name,
      track_artist |-> row.track_artist,
      track_album_name |-> row.track_album_name,
      track_album_release_date |-> row.track_album_release_date,
      playlist_genre |-> row.playlist_genre,
      release_year |-> year, decade |-> DecadeOf(year)]

RECURSIVE LoadLoop(_, _, _, _)
LoadLoop(rows, i, records, seen_ids) ==
  IF i > Len(rows) THEN records
  ELSE IF KeepRow(rows[i], seen_ids)
  THEN LoadLoop(rows, i + 1, Append(records, Tagged(rows[i])),
                seen_ids \cup {rows[i].track_id})
  ELSE LoadLoop(rows, i + 1, records, seen_ids)

load_spotify_records(rows) == LoadLoop(rows, 1, <<>>, {})

\* --------------------------------------------------------------------- rng
\* A generator seeded from the system instead of from 42: a new stream.
UnseededRng(rs) == [tape |-> <<>>, pos |-> 0]

\* rng = random.Random(42): a fixed stream.  The stream is materialised as it
\* is drawn: tape holds the draws made so far, each with the bound it was
\* asked for, and pos is how many of them this process has consumed.  A
\* process started again with the same seed reads the same tape.
SeededRng(rs) == [tape |-> rs.tape, pos |-> 0]

\* randbelow(m): the results the next draw can give, with the rng after it.
RandBelow(rs, m) ==
  IF rs.pos < Len(rs.tape) /\ rs.tape[rs.pos + 1].n = m
  THEN {[v |-> rs.tape[rs.pos + 1].v,
         rs |-> [tape |-> rs.tape, pos |-> rs.pos + 1]]}
  ELSE {[v |-> x,
         rs |-> [tape |-> Append(SubSeq(rs.tape, 1, rs.pos), [n |-> m, v |-> x]),
                 pos |-> rs.pos + 1]] : x \in 0..(m - 1)}

\* rng.sample(population, k): pool[j] is taken and replaced by the last
\* element of the shrinking pool.
RECURSIVE SampleLoop(_, _, _, _, _)
SampleLoop(pool, k, i, result, rs) ==
  IF i >= k THEN {[res |-> result, rs |-> rs]}
  ELSE LET n == Len(pool)
       IN UNION { SampleLoop([pool EXCEPT ![d.v + 1] = pool[n - i]], k, i + 1,
                             Append(result, pool[d.v + 1]), d.rs)
                  : d \in RandBelow(rs, n - i) }

RngSample(population, k, rs) == SampleLoop(population, k, 0, <<>>, rs)

\* rng.shuffle(x): for i in reversed(range(1, len(x))), swap x[i] and x[j].
RECURSIVE ShuffleLoop(_, _, _)
ShuffleLoop(x, i, rs) ==
  IF i < 1 THEN {[res |-> x, rs |-> rs]}
  ELSE UNION { ShuffleLoop([x EXCEPT ![i + 1] = x[d.v + 1], ![d.v + 1] = x[i + 1]],
                           i - 1, d.rs)
               : d \in RandBelow(rs, i + 1) }

RngShuffle(x, rs) == ShuffleLoop(x, Len(x) - 1, rs)

\* ------------------------------------------------- stratified_sample: draw
\* The keys of groups, in insertion order.
RECURSIVE GenreOrder(_, _)
GenreOrder(bucket, seen) ==
  IF bucket = <<>> THEN <<>>
  ELSE IF Head(bucket).playlist_genre \in seen
  THEN GenreOrder(Tail(bucket), seen)
  ELSE <<Head(bucket).playlist_genre>>
       \o GenreOrder(Tail(bucket), seen \cup {Head(bucket).playlist_genre})

GroupItems(bucket, genre) ==
  SelectSeq(bucket, LAMBDA r : r.playlist_genre = genre)

RECURSIVE DrawGroups(_, _, _, _, _, _)
DrawGroups(bucket, genres, alloc, g, sampled, rs) ==
  IF g > Len(genres) THEN {[picks |-> sampled, rs |-> rs]}
  ELSE LET items == GroupItems(bucket, genres[g])
           count == alloc[g]
       IN IF count <= 0
          THEN DrawGroups(bucket, genres, alloc, g + 1, sampled, rs)
          ELSE IF count >= Len(items)
          THEN DrawGroups(bucket, genres, alloc, g + 1, sampled \o items, rs)
          ELSE UNION { DrawGroups(bucket, genres, alloc, g + 1,
                                  sampled \o o.res, o.rs)
                       : o \in RngSample(items, count, rs) }

\* stratified_sample(bucket, target): the results it can return, each with
\* the rng after it.
stratified_sample(bucket, tgt, rs) ==
  IF Len(bucket) <= tgt THEN {[picks |-> bucket, rs |-> rs]}
  ELSE LET genres == GenreOrder(bucket, {})
           sizes == [g \in 1..Len(genres) |-> Len(GroupItems(bucket, genres[g]))]
       IN DrawGroups(bucket, genres, Allocations(sizes, tgt), 1, <<>>, rs)

\* --------------------------------------------------- select_spotify_subset
IdsOf(rows) == {rows[i].track_id : i \in 1..Len(rows)}

\* bucket = [r for r in records if r['decade'] == decade and r['track_id'] not in used_ids]
Bucket(records, decade, used) ==
  SelectSeq(records, LAMBDA r : r.decade = decade /\ r.track_id \notin used)

\* BackfillPool without the filter on the ids already picked.
BackfillPoolUnfiltered(bucket, picks) == bucket

\* remaining = [r for r in bucket if r['track_id'] not in {p['track_id'] for p in picks}]
BackfillPool(bucket, picks) ==
  SelectSeq(bucket, LAMBDA r : r.track_id \notin IdsOf(picks))

\* The "if len(picks) < target" block: picks after the backfill.
Backfill(bucket, picks, tgt, rs) ==
  IF Len(picks) < tgt
  THEN LET rest == BackfillPool(bucket, picks)
           needed == tgt - Len(picks)
       IN IF rest # <<>> /\ needed > 0
          THEN {[picks |-> picks \o o.res, rs |-> o.rs]
                : o \in RngSample(rest, Min(needed, Len(rest)), rs)}
          ELSE {[picks |-> picks, rs |-> rs]}
  ELSE {[picks |-> picks, rs |-> rs]}

\* No truncation to target.
NoTruncate(picks, tgt) == picks

\* picks[:target]
TruncatePicks(picks, tgt) == SubSeq(picks, 1, Min(tgt, Len(picks)))

\* One decade of the loop: the picks it can end with.
DecadePicks(bucket, tgt, rs) ==
  UNION { Backfill(bucket, s.picks, tgt, s.rs)
          : s \in stratified_sample(bucket, tgt, rs) }

\* ------------------------------------------------------------ enrichment
Key(title, artist) == <<Strip(Lower(title)), Strip(Lower(artist))>>

EntryKey(entry) == Key(entry.title, entry.artist)

spotify_row_to_entry(row) ==
  [id |-> <<"spotify", row.track_id>>,
   title |-> row.track_name,
   artist |-> row.track_artist,
   album |-> row.track_album_name,
   releaseYear |-> row.release_year,
   primaryGenre |-> row.playlist_genre,
   source |-> "spotify-tidytuesday-2020-01-21"]

IsSlugChar(c) ==
  IsDigitChar(c) \/ (Ord(c) >= Ord("a") /\ Ord(c) <= Ord("z"))

\* re.sub(r'[^a-z0-9]+', '-', text)
RECURSIVE SlugRuns(_, _)
SlugRuns(text, inRun) ==
  IF text = <<>> THEN <<>>
  ELSE IF IsSlugChar(Head(text)) THEN <<Head(text)>> \o SlugRuns(Tail(text), FALSE)
  ELSE IF inRun THEN SlugRuns(Tail(text), TRUE)
  ELSE <<"-">> \o SlugRuns(Tail(text), TRUE)

RECURSIVE StripDashes(_)
StripDashes(s) ==
  IF s # <<>> /\ Head(s) = "-" THEN StripDashes(Tail(s))
  ELSE IF s # <<>> /\ s[Len(s)] = "-" THEN StripDashes(SubSeq(s, 1, Len(s) - 1))
  ELSE s

manual_row_to_entry(row) ==
  LET yearText == Strip(row.year)
      slug == StripDashes(SlugRuns(
                Lower(row.artist \o <<" ">> \o row.title \o <<" ">> \o yearText),
                FALSE))
  IN [id |-> <<"manual", slug>>,
      title |-> row.title,
      artist |-> row.artist,
      album |-> row.album,
      releaseYear |-> IntOf(yearText),
      primaryGenre |-> row.primary_genre,
      source |-> "manual-french-classics"]

load_manual_french_songs(rows) ==
  [i \in 1..Len(rows) |-> manual_row_to_entry(rows[i])]

\* ------------------------------------------------------------------- merge
KeysOf(entries) == {EntryKey(entries[i]) : i \in 1..Len(entries)}

\* MergeStep without key_lookup.add(key).
MergeStepForgetsKey(st, entry) ==
  IF EntryKey(entry) \in st.key_lookup
  THEN [st EXCEPT !.skipped_manual = @ + 1]
  ELSE [st EXCEPT !.manual_entries = Append(@, entry)]

\* The body of "for entry in load_manual_french_songs()".
MergeStep(st, entry) ==
  IF EntryKey(entry) \in st.key_lookup
  THEN [st EXCEPT !.skipped_manual = @ + 1]
  ELSE [st EXCEPT !.manual_entries = Append(@, entry),
                  !.key_lookup = @ \cup {EntryKey(entry)}]

RECURSIVE MergeLoop(_, _, _)
MergeLoop(st, entries, i) ==
  IF i > Len(entries) THEN st
  ELSE MergeLoop(MergeStep(st, entries[i]), entries, i + 1)

\* needed, one short.
NeededOffByOne(n) == CatalogTarget - n - 1

\* needed = 3000 - len(combined)
Needed(n) == CatalogTarget - n

\* remaining = [row for row in spotify_records if key(row) not in key_lookup]
PadPool(records, keys) ==
  SelectSeq(records, LAMBDA r : Key(r.track_name, r.track_artist) \notin keys)

\* ------------------------------------------------------------------ writer
\* combined.sort(key=lambda item: (item['releaseYear'], item['title']))
SortCatalog(entries) ==
  LET n == Len(entries)
      before ==
        {p \in (1..n) \X (1..n) :
           \/ entries[p[1]].releaseYear < entries[p[2]].releaseYear
           \/ /\ entries[p[1]].releaseYear = entries[p[2]].releaseYear
              /\ StrLess(entries[p[1]].title, entries[p[2]].title)}
      ord == OrderedBy(n, before)
  IN [p \in 1..Len(entries) |-> entries[ord[p]]]

\* Counter(entry['releaseYear'] // 10 * 10 for entry in combined)
ByDecade(entries) ==
  LET ds == {DecadeOf(entries[i].releaseYear) : i \in 1..Len(entries)}
  IN [d \in ds |->
        Cardinality({i \in 1..Len(entries) : DecadeOf(entries[i].releaseYear) = d})]

Payload(entries, skipped, now) ==
  [metadata |-> [generatedAt |-> now,
                 recordCount |-> Len(entries),
                 skipped |-> skipped,
                 byDecade |-> ByDecade(entries)],
   songs |-> entries]

\* ------------------------------------------------------------------- state
VARIABLES
  rawExists,        \* RAW_DATA.exists()
  manualExists,     \* MANUAL_FR_FILE can be opened
  rawRows,          \* the rows of RAW_DATA
  manualRows,       \* the rows of MANUAL_FR_FILE
  pc,               \* where main() is
  run,              \* 1: the first run of the script, 2: the run after it
  stages,           \* the stages of main() this run has completed
  failure,          \* what the run died of, "" while it has not
  spotify_records,
  selected,
  used_ids,
  decadeIdx,        \* position of the loop over DECADE_TARGETS.items()
  spotify_entries,
  key_lookup,
  manual_entries,
  skipped_manual,
  combined,
  remaining,
  rng,
  clock,            \* datetime.utcnow(), in seconds
  output,           \* OUTPUT_PATH as left by this run: <<>> or <<payload>>
  firstOutput,      \* OUTPUT_PATH as left by the first run
  groups,           \* stratified_sample on its own: the group sizes
  target,
  allocations,
  diff,
  ordered,
  pos,
  branch,           \* "", "shortfall", "overflow" or "exact"
  spc               \* where stratified_sample is

fileVars == <<rawExists, manualExists, rawRows, manualRows>>

selectVars == <<spotify_records, selected, used_ids, decadeIdx>>

mergeVars ==
  <<spotify_entries, key_lookup, manual_entries, skipped_manual, combined, remaining>>

outVars == <<clock, output, firstOutput>>

samplerVars == <<groups, target, allocations, diff, ordered, pos, branch, spc>>

vars ==
  <<fileVars, pc, run, stages, failure, selectVars, mergeVars, rng, outVars,
    samplerVars>>

\* A process that has just started main().
Fresh ==
  /\ pc = "check"
  /\ stages = {}
  /\ failure = ""
  /\ spotify_records = <<>>
  /\ selected = <<>>
  /\ used_ids = {}
  /\ decadeIdx = 1
  /\ spotify_entries = <<>>
  /\ key_lookup = {}
  /\ manual_entries = <<>>
  /\ skipped_manual = 0
  /\ combined = <<>>
  /\ remaining = <<>>

SamplerIdle ==
  /\ groups = <<>>
  /\ target = 0
  /\ allocations = <<>>
  /\ diff = 0
  /\ ordered = <<>>
  /\ pos = 0
  /\ branch = ""
  /\ spc = "idle"

Init ==
  /\ rawExists \in BOOLEAN
  /\ manualExists \in BOOLEAN
  /\ rawRows \in SeqsUpTo(RawRowPool, MaxRows)
  /\ manualRows \in SeqsUpTo(ManualRowPool, MaxManual)
  /\ ~rawExists => rawRows = <<>>
  /\ ~manualExists => manualRows = <<>>
  /\ Fresh
  /\ run = 1
  /\ rng = [tape |-> <<>>, pos |-> 0]
  /\ clock = 0
  /\ output = <<>>
  /\ firstOutput = <<>>
  /\ SamplerIdle

\* ------------------------------------------------------------------ main()
\* if not RAW_DATA.exists(): raise SystemExit(...)
CheckSource ==
  /\ pc = "check"
  /\ IF rawExists
     THEN pc' = "load" /\ failure' = failure
     ELSE pc' = "aborted" /\ failure' = "Missing dataset"
  /\ UNCHANGED <<fileVars, run, stages, selectVars, mergeVars, rng, outVars,
                 samplerVars>>

\* spotify_records = load_spotify_records()
LoadRecords ==
  /\ pc = "load"
  /\ spotify_records' = load_spotify_records(rawRows)
  /\ stages' = stages \cup {"load"}
  /\ pc' = "select"
  /\ UNCHANGED <<fileVars, run, failure, selected, used_ids, decadeIdx,
                 mergeVars, rng, outVars, samplerVars>>

\* One pass of "for decade, target in DECADE_TARGETS.items()".
SelectDecade ==
  /\ pc = "select"
  /\ decadeIdx <= Len(DECADE_TARGETS)
  /\ LET d == DECADE_TARGETS[decadeIdx]
         bucket == Bucket(spotify_records, d.decade, used_ids)
     IN IF bucket = <<>>
        THEN UNCHANGED <<selected, used_ids, rng>>
        ELSE \E o \in DecadePicks(bucket, d.target, rng) :
               /\ used_ids' = used_ids \cup IdsOf(o.picks)
               /\ selected' = selected \o TruncatePicks(o.picks, d.target)
               /\ rng' = o.rs
  /\ decadeIdx' = decadeIdx + 1
  /\ UNCHANGED <<fileVars, pc, run, stages, failure, spotify_records,
                 mergeVars, outVars, samplerVars>>

\* return selected; spotify_entries = [...]; key_lookup = {...}
EnrichPrimary ==
  /\ pc = "select"
  /\ decadeIdx > Len(DECADE_TARGETS)
  /\ spotify_entries' =
       [i \in 1..Len(selected) |-> spotify_row_to_entry(selected[i])]
  /\ key_lookup' = KeysOf(spotify_entries')
  /\ stages' = stages \cup {"select", "enrich"}
  /\ pc' = "merge"
  /\ UNCHANGED <<fileVars, run, failure, selectVars, manual_entries,
                 skipped_manual, combined, remaining, rng, outVars, samplerVars>>

\* A missing curated file read as an empty one.
ManualOpenNeverFails == FALSE

\* MANUAL_FR_FILE.open() raises FileNotFoundError
ManualOpenFails == ~manualExists

\* The loop over load_manual_french_songs(), then combined = ... + ...
MergeManual ==
  /\ pc = "merge"
  /\ IF ManualOpenFails
     THEN /\ pc' = "aborted"
          /\ failure' = "FileNotFoundError"
          /\ UNCHANGED <<stages, mergeVars>>
     ELSE LET st == MergeLoop([manual_entries |-> <<>>, skipped_manual |-> 0,
                               key_lookup |-> key_lookup],
                              load_manual_french_songs(manualRows), 1)
          IN /\ manual_entries' = st.manual_entries
             /\ skipped_manual' = st.skipped_manual
             /\ key_lookup' = st.key_lookup
             /\ combined' = spotify_entries \o st.manual_entries
             /\ stages' = stages \cup {"merge"}
             /\ pc' = "pad"
             /\ UNCHANGED <<failure, spotify_entries, remaining>>
  /\ UNCHANGED <<fileVars, run, selectVars, rng, outVars, samplerVars>>

\* if len(combined) < 3000: ...
Pad ==
  /\ pc = "pad"
  /\ IF Len(combined) < CatalogTarget
     THEN LET needed == Needed(Len(combined))
              pool == PadPool(spotify_records, key_lookup)
          IN \E o \in RngShuffle(pool, rng) :
               LET taken == SubSeq(o.res, 1, Min(needed, Len(o.res)))
                   added == [i \in 1..Len(taken) |-> spotify_row_to_entry(taken[i])]
               IN /\ remaining' = o.res
                  /\ rng' = o.rs
                  /\ key_lookup' = key_lookup \cup KeysOf(added)
                  /\ combined' = combined \o added
     ELSE UNCHANGED <<remaining, rng, key_lookup, combined>>
  /\ pc' = "write"
  /\ UNCHANGED <<fileVars, run, stages, failure, selectVars, spotify_entries,
                 manual_entries, skipped_manual, outVars, samplerVars>>

\* combined.sort(...); metadata = ...; json.dump(payload, handle)
WriteCatalog ==
  /\ pc = "write"
  /\ \E now \in clock..MaxClock :
       /\ clock' = now
       /\ combined' = SortCatalog(combined)
       /\ output' = <<Payload(combined', skipped_manual, now)>>
  /\ pc' = "done"
  /\ UNCHANGED <<fileVars, run, stages, failure, selectVars, spotify_entries,
                 key_lookup, manual_entries, skipped_manual, remaining, rng,
                 firstOutput, samplerVars>>

\* The script is run again on the same files: a new process, seeded again.
Rerun ==
  /\ pc \in {"done", "aborted"}
  /\ run = 1
  /\ run' = 2
  /\ firstOutput' = output
  /\ output' = <<>>
  /\ rng' = SeededRng(rng)
  /\ pc' = "check"
  /\ stages' = {}
  /\ failure' = ""
  /\ spotify_records' = <<>>
  /\ selected' = <<>>
  /\ used_ids' = {}
  /\ decadeIdx' = 1
  /\ spotify_entries' = <<>>
  /\ key_lookup' = {}
  /\ manual_entries' = <<>>
  /\ skipped_manual' = 0
  /\ combined' = <<>>
  /\ remaining' = <<>>
  /\ UNCHANGED <<fileVars, clock, samplerVars>>

Next ==
  \/ CheckSource
  \/ LoadRecords
  \/ SelectDecade
  \/ EnrichPrimary
  \/ MergeManual
  \/ Pad
  \/ WriteCatalog
  \/ Rerun

Spec == Init /\ [][Next]_vars

\* ------------------------------------------- stratified_sample, step by step
Idle ==
  /\ rawExists = FALSE
  /\ manualExists = FALSE
  /\ rawRows = <<>>
  /\ manualRows = <<>>
  /\ Fresh
  /\ run = 1
  /\ rng = [tape |-> <<>>, pos |-> 0]
  /\ clock = 0
  /\ output = <<>>
  /\ firstOutput = <<>>

mainVars ==
  <<fileVars, pc, run, stages, failure, selectVars, mergeVars, rng, outVars>>

\* A call of stratified_sample on a bucket with the given genre groups.
InitSampler ==
  /\ Idle
  /\ groups \in UNION {[1..n -> 1..MaxGroup] : n \in 1..MaxGenres}
  /\ target \in 1..MaxTarget
  /\ allocations = <<>>
  /\ diff = 0
  /\ ordered = <<>>
  /\ pos = 0
  /\ branch = ""
  /\ spc = "call"

\* if len(bucket) <= target: return list(bucket)
StratReturnWhole ==
  /\ spc = "call"
  /\ SumSeq(groups) <= target
  /\ spc' = "whole"
  /\ UNCHANGED <<mainVars, groups, target, allocations, diff, ordered, pos, branch>>

\* The allocation loop, current = sum(...), and the sort of the branch taken.
StratPlan ==
  /\ spc = "call"
  /\ SumSeq(groups) > target
  /\ allocations' = InitialAllocations(groups, target)
  /\ LET current == SumSeq(allocations')
     IN IF current < target
        THEN /\ diff' = target - current
             /\ ordered' = ShortfallOrder(groups, allocations')
             /\ branch' = "shortfall"
             /\ spc' = "shortfall"
        ELSE IF current > target
        THEN /\ diff' = current - target
             /\ ordered' = OverflowOrder(allocations')
             /\ branch' = "overflow"
             /\ spc' = "overflow"
        ELSE /\ diff' = 0
             /\ ordered' = <<>>
             /\ branch' = "exact"
             /\ spc' = "sample"
  /\ pos' = 1
  /\ UNCHANGED <<mainVars, groups, target>>

\* One pass of "for genre, items in ordered" of the shortfall branch.
StratShortfallStep ==
  /\ spc = "shortfall"
  /\ IF pos > Len(ordered) \/ diff <= 0
     THEN spc' = "sample" /\ UNCHANGED <<allocations, diff, pos>>
     ELSE LET st == ShortfallIter(groups, [allocations |-> allocations, diff |-> diff],
                                  ordered[pos])
          IN /\ allocations' = st.allocations
             /\ diff' = st.diff
             /\ pos' = pos + 1
             /\ spc' = spc
  /\ UNCHANGED <<mainVars, groups, target, ordered, branch>>

\* One pass of "for genre, _ in sorted(...)" of the overflow branch.
StratOverflowStep ==
  /\ spc = "overflow"
  /\ IF pos > Len(ordered) \/ diff = 0
     THEN spc' = "sample" /\ UNCHANGED <<allocations, diff, pos>>
     ELSE LET st == OverflowWhile([allocations |-> allocations, diff |-> diff],
                                  ordered[pos])
          IN /\ allocations' = st.allocations
             /\ diff' = st.diff
             /\ pos' = pos + 1
             /\ spc' = spc
  /\ UNCHANGED <<mainVars, groups, target, ordered, branch>>

NextSampler ==
  \/ StratReturnWhole
  \/ StratPlan
  \/ StratShortfallStep
  \/ StratOverflowStep

SpecSampler == InitSampler /\ [][NextSampler]_vars

\* ------------------------------------------------------------- properties
SelectionDone ==
  \/ (pc = "select" /\ decadeIdx > Len(DECADE_TARGETS))
  \/ "select" \in stages

CountDecade(rows, decade) ==
  Cardinality({i \in 1..Len(rows) : rows[i].decade = decade})

Songs == output[1].songs

\* C1: once select_spotify_subset has run, every decade of DECADE_TARGETS has
\* at most its quota of selected records, and exactly its quota when at least
\* that many records of the decade were loaded.
C1_DecadeQuota ==
  SelectionDone =>
    \A i \in 1..Len(DECADE_TARGETS) :
      LET d == DECADE_TARGETS[i]
      IN /\ CountDecade(selected, d.decade) <= d.target
         /\ CountDecade(spotify_records, d.decade) >= d.target
              => CountDecade(selected, d.decade) = d.target

\* A decade with more loaded records than its quota has been sampled down.
C1_Witness ==
  /\ SelectionDone
  /\ \E i \in 1..Len(DECADE_TARGETS) :
       /\ CountDecade(spotify_records, DECADE_TARGETS[i].decade)
            > DECADE_TARGETS[i].target
       /\ CountDecade(selected, DECADE_TARGETS[i].decade)
            = DECADE_TARGETS[i].target

\* C2: the catalog that main writes never holds two entries with the same
\* normalized (title, artist) key.
C2_NoDuplicateKeys ==
  pc = "done" =>
    \A i, j \in 1..Len(Songs) :
      i # j => EntryKey(Songs[i]) # EntryKey(Songs[j])

\* C3 as stated: for a bucket larger than target, the reconciled allocations
\* sum to exactly target.
C3_SumEqualsTarget ==
  spc = "sample" => SumSeq(allocations) = target

\* C3 as amended: the reconciled allocations sum to the larger of target and
\* the number of genres of the bucket (no genre is taken below 1).
C3_SumIsTargetOrGenreCount ==
  spc = "sample" => SumSeq(allocations) = Max(target, Len(groups))

\* A reconciliation has changed the plan and brought it to target.
C3_Witness ==
  /\ spc = "sample"
  /\ branch \in {"shortfall", "overflow"}
  /\ allocations # InitialAllocations(groups, target)
  /\ SumSeq(allocations) = target

Available ==
  Len(spotify_entries) + Len(manual_entries) + Len(remaining)

\* C4 as stated: the written catalog has exactly CatalogTarget entries
\* whenever the sampled entries, the kept curated entries and the remaining
\* raw records together are at least CatalogTarget.
C4_SizeEqualsTarget ==
  (pc = "done" /\ Available >= CatalogTarget) => Len(Songs) = CatalogTarget

\* C4 as amended: under the same condition the catalog has CatalogTarget
\* entries, unless the sampled and kept curated entries alone already exceed
\* it, and then it has all of those (nothing is truncated).
C4_SizeReachesTarget ==
  (pc = "done" /\ Available >= CatalogTarget) =>
    Len(Songs) = Max(CatalogTarget, Len(spotify_entries) + Len(manual_entries))

\* Padding has filled a short catalog up to the target.
C4_Witness ==
  /\ pc = "done"
  /\ Len(spotify_entries) + Len(manual_entries) < CatalogTarget
  /\ Len(Songs) = CatalogTarget

\* C5: no track_id occurs twice in the selection, so none occurs in the
\* selection of two decades.
C5_SelectionPartitioned ==
  \A i, j \in 1..Len(selected) :
    i # j => selected[i].track_id # selected[j].track_id

\* Both decades have contributed to the finished selection.
C5_Witness ==
  /\ SelectionDone
  /\ \A i \in 1..Len(DECADE_TARGETS) :
       CountDecade(selected, DECADE_TARGETS[i].decade) > 0

\* C6 as stated: a second run on the same files writes the same catalog,
\* metadata included.
C6_SameOutput ==
  (run = 2 /\ pc = "done") => output = firstOutput

\* C6 as amended: the second run writes the same songs in the same order and
\* the same metadata except for generatedAt.
C6_SameSongs ==
  (run = 2 /\ pc = "done") =>
    /\ Len(firstOutput) = 1
    /\ Songs = firstOutput[1].songs
    /\ [output[1].metadata EXCEPT !.generatedAt = 0]
         = [firstOutput[1].metadata EXCEPT !.generatedAt = 0]

\* The second run has finished after drawing from the rng.
C6_Witness ==
  /\ run = 2
  /\ pc = "done"
  /\ rng.pos > 0
  /\ Len(Songs) > 1

\* C7: every loaded record comes from a row of the file with a parseable year
\* of 1960 or later, a decade of DECADE_TARGETS and no soundtrack keyword in
\* its lower-cased title and album, and no two loaded records share a
\* track_id.
C7_LoadedRecordsValid ==
  \A i \in 1..Len(spotify_records) :
    LET r == spotify_records[i]
        year == parse_year(r.track_album_release_date)
    IN /\ \E k \in 1..Len(rawRows) : r = Tagged(rawRows[k])
       /\ year # Nil
       /\ year >= 1960
       /\ r.release_year = year
       /\ r.decade = DecadeOf(year)
       /\ r.decade \in DecadeKeys
       /\ ~is_soundtrack(r)
       /\ \A j \in 1..Len(spotify_records) :
            j # i => spotify_records[j].track_id # r.track_id

RowRejected(row) ==
  LET year == parse_year(row.track_album_release_date)
  IN year = Nil \/ year < 1960 \/ DecadeOf(year) \notin DecadeKeys
     \/ is_soundtrack(row)

\* The loader has kept a row and dropped another.
C7_Witness ==
  /\ "load" \in stages
  /\ spotify_records # <<>>
  /\ \E k \in 1..Len(rawRows) : RowRejected(rawRows[k])

\* The positions of the keys that are not primary keys and occur there first.
FirstWithKey(keys, primaryKeys) ==
  {i \in 1..Len(keys) :
     /\ keys[i] \notin primaryKeys
     /\ \A j \in 1..(i - 1) : keys[j] # keys[i]}

\* C8: the merge keeps exactly the curated entries whose key is new, in file
\* order, leaves the primary entries as they were, and reports as skipped the
\* number of curated rows minus the number kept.
C8_CuratedDuplicatesDropped ==
  "merge" \in stages =>
    LET curated == load_manual_french_songs(manualRows)
        keys == [i \in 1..Len(curated) |-> EntryKey(curated[i])]
        first == FirstWithKey(keys, KeysOf(spotify_entries))
    IN /\ Len(manual_entries) = Cardinality(first)
       /\ \A p \in 1..Len(manual_entries) :
            \E i \in first :
              /\ Cardinality({j \in first : j <= i}) = p
              /\ manual_entries[p] = curated[i]
       /\ skipped_manual = Len(manualRows) - Len(manual_entries)
       /\ pc \in {"pad", "write"} =>
            SubSeq(combined, 1, Len(spotify_entries)) = spotify_entries
       /\ pc = "done" =>
            /\ output[1].metadata.skipped = skipped_manual
            /\ \A i \in 1..Len(spotify_entries) :
                 \E p \in 1..Len(Songs) : Songs[p] = spotify_entries[i]

\* A curated row has collided with a primary entry and been counted.
C8_Witness ==
  /\ pc = "done"
  /\ output[1].metadata.skipped > 0
  /\ manual_entries # <<>>
  /\ \E i \in 1..Len(manualRows) :
       Key(manualRows[i].title, manualRows[i].artist) \in KeysOf(spotify_entries)

AllStages == {"load", "select", "enrich", "merge"}

\* C9 as stated: a run that aborts on a missing source has done no processing
\* and written nothing, and a catalog is written only after every stage.
C9_AbortBeforeProcessing ==
  /\ pc = "aborted" => (stages = {} /\ output = <<>>)
  /\ output # <<>> => AllStages \subseteq stages

\* C9 as amended: without the raw dataset the run aborts before any stage;
\* without the curated file it aborts after loading, selecting and enriching
\* the raw records; in both cases nothing is written, and a catalog is written
\* only after every stage.
C9_NoCatalogWithoutSources ==
  /\ ~rawExists => (pc \in {"check", "aborted"} /\ stages = {})
  /\ (~rawExists /\ pc = "aborted") => failure = "Missing dataset"
  /\ ~manualExists => pc \notin {"pad", "write", "done"}
  /\ (rawExists /\ pc = "aborted") =>
       (~manualExists /\ stages = {"load", "select", "enrich"})
  /\ (~rawExists \/ ~manualExists) => output = <<>>
  /\ pc = "aborted" => output = <<>>
  /\ output # <<>> => AllStages \subseteq stages

\* The curated file is missing and the run has died after selecting records.
C9_Witness ==
  /\ pc = "aborted"
  /\ ~manualExists
  /\ selected # <<>>
  /\ output = <<>>

InitialPlan == InitialAllocations(groups, target)

Added(g) == allocations[g] - InitialPlan[g]

Headroom(g) == groups[g] - InitialPlan[g]

\* C10 as stated: the shortfall goes to the genres one unit at a time, in
\* rounds over the genres ordered by (headroom, size): no genre has a second
\* unit while a genre with headroom has none; and no allocation exceeds its
\* group's size.
C10_OneUnitAtATime ==
  branch = "shortfall" =>
    /\ \A g \in 1..Len(groups) : allocations[g] <= groups[g]
    /\ spc = "sample" =>
         \A g, h \in 1..Len(groups) :
           (Added(g) >= 2 /\ Headroom(h) >= 1) => Added(h) >= 1

\* C10 as amended: the genres are served in (headroom, size) descending
\* order, each taking all it can hold before the next gets anything; no
\* allocation ever exceeds its group's size, and the plan ends at target.
C10_GreedyShortfall ==
  branch = "shortfall" =>
    /\ \A g \in 1..Len(groups) :
         allocations[g] <= groups[g] /\ Added(g) >= 0
    /\ spc = "sample" =>
         /\ SumSeq(allocations) = target
         /\ \A g, h \in 1..Len(groups) :
              ( /\ Added(h) > 0
                /\ \/ Headroom(g) > Headroom(h)
                   \/ (Headroom(g) = Headroom(h) /\ groups[g] > groups[h]) )
              => allocations[g] = groups[g]

\* A genre has received two units of the shortfall at once.
C10_Witness ==
  /\ branch = "shortfall"
  /\ spc = "sample"
  /\ \E g \in 1..Len(groups) : Added(g) >= 2

====
